---- MODULE Spec2Model ----
(***************************************************************************)
(* Model of PPA.py: dependency validation and the stage scheduler of       *)
(* plan_parallel_actions.  One planning call is a state machine: the       *)
(* recursion of schedule_task is an explicit stack of frames, and each     *)
(* iteration of its stage-search loop, each step of the child loop and     *)
(* each step of the two top-level loops is one action.                     *)
(***************************************************************************)
EXTENDS Integers, Sequences, FiniteSets, TLC

VARIABLES
    actions,            \* the `actions` argument: sequence of Action records
    available_agents,   \* the `available_agents` argument: sequence of Agent records
    recent_handler,     \* module-level dict object -> Agent
    handler_at_call,    \* history: recent_handler when the current call started
    previous_result,    \* history: <<start handlers and result of the call before>>, or <<>>
    assigned_actions,   \* dict action id -> stage
    stage_assignments,  \* dict stage -> list of ActionAssignment
    unassigned_actions, \* keys of the dict of unassigned actions
    pc,                 \* position of plan_parallel_actions
    todo,               \* rest of the list the current top-level for-loop walks
    stack               \* frames of schedule_task, innermost last

vars == <<actions, available_agents, recent_handler, handler_at_call, previous_result,
          assigned_actions, stage_assignments, unassigned_actions, pc, todo, stack>>

----------------------------------------------------------------------------
(* Bounds of the generated inputs and of the stage search.                 *)

NumActions == 3      \* actions in a generated input
MaxAgents == 2       \* agents in a generated roster
MaxStage == 6        \* the stage search is cut off above this stage
NumNodes == 3        \* actions in an input of the validator specification

----------------------------------------------------------------------------
(* Generic helpers.                                                        *)

Range(s) == {s[i] : i \in DOMAIN s}

InSeq(x, s) == \E i \in DOMAIN s : s[i] = x

Prefix(s, n) == IF n >= Len(s) THEN s ELSE SubSeq(s, 1, n)

\* Python s[:n], also for n < 0 (all but the last -n elements).
PySlice(s, n) ==
    IF n >= 0 THEN Prefix(s, n)
    ELSE IF Len(s) + n <= 0 THEN <<>> ELSE SubSeq(s, 1, Len(s) + n)

Max(S) == CHOOSE x \in S : \A y \in S : y <= x

\* dict helpers: a dict is a function whose DOMAIN is its key set.
EmptyDict == [k \in {} |-> 0]

DictPut(d, k, v) == [x \in DOMAIN d \cup {k} |-> IF x = k THEN v ELSE d[x]]

----------------------------------------------------------------------------
(* Data model.                                                             *)

Agent(id, constraints) == [id |-> id, constraints |-> constraints]

Action(id, type, objects, min, depends_on) ==
    [id |-> id, type |-> type, objects |-> objects, min |-> min,
     depends_on |-> depends_on]

ActionAssignment(action_id, assigned_agents, stage) ==
    [action_id |-> action_id, assigned_agents |-> assigned_agents, stage |-> stage]

ActionIds(acts) == {acts[i].id : i \in DOMAIN acts}

\* next(x for x in actions if x.id == aid)
ActionById(acts, aid) ==
    acts[CHOOSE i \in DOMAIN acts :
            acts[i].id = aid /\ \A j \in DOMAIN acts : acts[j].id = aid => i <= j]

----------------------------------------------------------------------------
(* validate_dependencies                                                   *)

\* lines 40-43: some action names a dependency that is no action id
MissingDependency(acts) ==
    \E i \in DOMAIN acts : \E k \in DOMAIN acts[i].depends_on :
        acts[i].depends_on[k] \notin ActionIds(acts)

RECURSIVE has_cycle(_, _, _, _)
RECURSIVE has_cycle_deps(_, _, _, _, _)

\* faulty variant of has_cycle: line 55 (path.remove) is left out
has_cycle_keeps_path(acts, aid, visited, path) ==
    IF aid \in path THEN [res |-> TRUE, visited |-> visited, path |-> path]
    ELSE IF aid \in visited THEN [res |-> FALSE, visited |-> visited, path |-> path]
    ELSE has_cycle_deps(acts, ActionById(acts, aid).depends_on, 1,
                        visited \cup {aid}, path \cup {aid})

\* has_cycle(aid, visited, path); the two sets are mutated in place by the
\* code, so the result carries them: [res, visited, path].
has_cycle(acts, aid, visited, path) ==
    IF aid \in path THEN [res |-> TRUE, visited |-> visited, path |-> path]
    ELSE IF aid \in visited THEN [res |-> FALSE, visited |-> visited, path |-> path]
    ELSE LET a == ActionById(acts, aid)
             r == has_cycle_deps(acts, a.depends_on, 1, visited \cup {aid}, path \cup {aid})
         IN  IF r.res THEN r
             ELSE [res |-> FALSE, visited |-> r.visited, path |-> r.path \ {aid}]

\* the loop `for dep in a.depends_on` of has_cycle, from index k on
has_cycle_deps(acts, deps, k, visited, path) ==
    IF k > Len(deps) THEN [res |-> FALSE, visited |-> visited, path |-> path]
    ELSE LET r == has_cycle(acts, deps[k], visited, path)
         IN  IF r.res THEN r ELSE has_cycle_deps(acts, deps, k + 1, r.visited, r.path)

RECURSIVE cycle_scan(_, _, _)

\* faulty variant of the loop of lines 57-61: only the first action starts a
\* traversal
cycle_scan_first_only(acts, i, visited) ==
    IF i > Len(acts) THEN FALSE ELSE has_cycle(acts, acts[i].id, visited, {}).res

\* lines 57-61: the loop over the actions with the shared `visited` set
cycle_scan(acts, i, visited) ==
    IF i > Len(acts) THEN FALSE
    ELSE IF acts[i].id \in visited THEN cycle_scan(acts, i + 1, visited)
    ELSE LET r == has_cycle(acts, acts[i].id, visited, {})
         IN  IF r.res THEN TRUE ELSE cycle_scan(acts, i + 1, r.visited)

\* faulty variant of validate_dependencies: lines 57-61 are left out
validate_dependencies_no_cycle(acts) ==
    IF MissingDependency(acts) THEN "missing" ELSE "ok"

\* "missing", "cycle" (the two ValueErrors) or "ok" (returns None)
validate_dependencies(acts) ==
    IF MissingDependency(acts) THEN "missing"
    ELSE IF cycle_scan(acts, 1, {}) THEN "cycle"
    ELSE "ok"

----------------------------------------------------------------------------
(* Helper functions of the scheduler.                                      *)

\* stage_assignments.get(stage, [])
StageList(sa, stage) == IF stage \in DOMAIN sa THEN sa[stage] ELSE <<>>

\* faulty variant of lines 74-77: only the first assignment of the stage is
\* looked at
UsedIds_first_only(stage, sa) ==
    IF StageList(sa, stage) = <<>> THEN {}
    ELSE {ag.id : ag \in Range(StageList(sa, stage)[1].assigned_agents)}

\* ids of the agents committed at `stage` (used_ids, lines 74-77)
UsedIds(stage, sa) ==
    UNION {{ag.id : ag \in Range(StageList(sa, stage)[i].assigned_agents)} :
              i \in DOMAIN StageList(sa, stage)}

\* faulty variant of get_free_agents: the agents used at the stage are not
\* removed
get_free_agents_all(stage, sa, agents) == agents

\* faulty variant of get_free_agents: the agents used at any stage are removed
get_free_agents_any_stage(stage, sa, agents) ==
    SelectSeq(agents,
        LAMBDA ag : \A st \in DOMAIN sa : ag.id \notin UsedIds(st, sa))

get_free_agents(stage, sa, agents) ==
    SelectSeq(agents, LAMBDA ag : ag.id \notin UsedIds(stage, sa))

\* the tag f"can't_{action_type}"
CantTag(type) == "can't_" \o type

\* faulty variant of can_do_action: the constraints are not consulted
can_do_action_any(agent, type) == TRUE

can_do_action(agent, type) == ~InSeq(CantTag(type), agent.constraints)

\* faulty variant of lines 83-91: every type of action is tracked
update_object_tracking_any_type(action, assigned, rh) ==
    [o \in DOMAIN rh \cup Range(action.objects) |->
        IF o \in Range(action.objects) THEN assigned[1] ELSE rh[o]]

\* update_object_tracking: the new value of recent_handler
update_object_tracking(action, assigned, rh) ==
    IF action.type \in {"fetch", "attach"}
    THEN [o \in DOMAIN rh \cup Range(action.objects) |->
             IF o \in Range(action.objects) THEN assigned[1] ELSE rh[o]]
    ELSE rh

----------------------------------------------------------------------------
(* Reverse dependency index and priority order (lines 99-104, 151).        *)

RECURSIVE Repeat(_, _)
Repeat(x, n) == IF n <= 0 THEN <<>> ELSE <<x>> \o Repeat(x, n - 1)

Occurrences(x, s) == Cardinality({k \in DOMAIN s : s[k] = x})

RECURSIVE children_from(_, _, _)
children_from(acts, id, i) ==
    IF i > Len(acts) THEN <<>>
    ELSE Repeat(acts[i].id, Occurrences(id, acts[i].depends_on))
             \o children_from(acts, id, i + 1)

\* reverse_dependencies[id]: ids of the actions naming `id`, in input order,
\* once per occurrence in their depends_on
reverse_dependencies(acts, id) == children_from(acts, id, 1)

dependency_count(acts, id) == Len(reverse_dependencies(acts, id))

\* first position of `sorted` whose key is smaller than key k
RECURSIVE InsertPos(_, _, _, _)
InsertPos(acts, sorted, k, i) ==
    IF i > Len(sorted) THEN i
    ELSE IF dependency_count(acts, sorted[i]) < k THEN i
    ELSE InsertPos(acts, sorted, k, i + 1)

RECURSIVE sort_into(_, _, _)
sort_into(acts, ids, sorted) ==
    IF ids = <<>> THEN sorted
    ELSE LET x == Head(ids)
             p == InsertPos(acts, sorted, dependency_count(acts, x), 1)
         IN  sort_into(acts, Tail(ids),
                 SubSeq(sorted, 1, p - 1) \o <<x>> \o SubSeq(sorted, p, Len(sorted)))

\* faulty variant of sorted_by_count: the list is left in input order
sorted_by_count_unsorted(acts, ids) == ids

\* sorted(ids, key=dependency_count, reverse=True): stable, descending
sorted_by_count(acts, ids) == sort_into(acts, ids, <<>>)

\* the positions 1..Len(acts) in order
Positions(acts) == [i \in DOMAIN acts |-> i]

\* the ids of the actions at the given positions
IdsAt(acts, pos) == [k \in DOMAIN pos |-> acts[pos[k]].id]

\* line 157-158: root_tasks_sorted
root_tasks_sorted(acts) ==
    sorted_by_count(acts,
        IdsAt(acts, SelectSeq(Positions(acts),
            LAMBDA i : acts[i].depends_on = <<>> /\ acts[i].type = "fetch")))

\* all(dep in assigned_actions for dep in a.depends_on)
deps_assigned(a, aa) == \A k \in DOMAIN a.depends_on : a.depends_on[k] \in DOMAIN aa

\* lines 165, 168: available_sorted of one scan of the fallback pass
available_sorted(acts, un, aa) ==
    sorted_by_count(acts,
        IdsAt(acts, SelectSeq(Positions(acts),
            LAMBDA i : acts[i].id \in un /\ deps_assigned(acts[i], aa))))

\* faulty variant of line 171: the stage count starts at 0 when the task has
\* no dependencies
fallback_desired_from_zero(a, aa) ==
    IF a.depends_on # <<>>
    THEN Max({aa[a.depends_on[k]] : k \in DOMAIN a.depends_on}) + 1
    ELSE 0

\* line 171: desired stage of a task started by the fallback pass
fallback_desired(a, aa) ==
    IF a.depends_on # <<>>
    THEN Max({aa[a.depends_on[k]] : k \in DOMAIN a.depends_on}) + 1
    ELSE 1

\* faulty variant of line 153: the test `child.id in unassigned_actions` is
\* left out
child_ready_any(child, un, aa) == deps_assigned(child, aa)

\* faulty variant of line 153: the test of the child's dependencies is left
\* out
child_ready_eager(child, un, aa) == child.id \in un

\* line 153: the child is started by the cascade
child_ready(child, un, aa) == child.id \in un /\ deps_assigned(child, aa)

----------------------------------------------------------------------------
(* One iteration of the stage-search loop (lines 113-134).                 *)

\* line 113-114: free at the stage and qualified for the type
free_agents(task, stage, sa, agents) ==
    SelectSeq(get_free_agents(stage, sa, agents),
              LAMBDA ag : can_do_action(ag, task.type))

\* lines 118-123, from object index k on, `acc` the list built so far
RECURSIVE preferred_from(_, _, _, _, _)
preferred_from(objects, k, rh, free, acc) ==
    IF k > Len(objects) THEN acc
    ELSE LET obj == objects[k]
             take == /\ obj \in DOMAIN rh
                     /\ InSeq(rh[obj], free)
                     /\ ~InSeq(rh[obj], acc)
         IN  preferred_from(objects, k + 1, rh, free,
                 IF take THEN Append(acc, rh[obj]) ELSE acc)

\* faulty variant of lines 118-123: no preferred candidates are collected
preferred_none(task, rh, free) == <<>>

preferred(task, rh, free) == preferred_from(task.objects, 1, rh, free, <<>>)

\* faulty variant of lines 124-134: line 130 tests for one agent instead of
\* required_count
choose_agents_short(task, stage, sa, agents, rh) ==
    LET free == free_agents(task, stage, sa, agents)
        pref == preferred(task, rh, free)
        others == SelectSeq(free, LAMBDA ag : ~InSeq(ag, pref))
    IN  IF Len(pref) >= task.min
        THEN [ok |-> TRUE, assigned |-> PySlice(pref, task.min)]
        ELSE IF Len(pref) + Len(others) >= 1
        THEN [ok |-> TRUE, assigned |-> pref \o PySlice(others, task.min - Len(pref))]
        ELSE [ok |-> FALSE, assigned |-> <<>>]

\* faulty variant of lines 124-134: line 126 takes the whole preferred list
\* instead of its first required_count agents
choose_agents_untruncated(task, stage, sa, agents, rh) ==
    LET free == free_agents(task, stage, sa, agents)
        pref == preferred(task, rh, free)
        others == SelectSeq(free, LAMBDA ag : ~InSeq(ag, pref))
    IN  IF Len(pref) >= task.min
        THEN [ok |-> TRUE, assigned |-> pref]
        ELSE IF Len(pref) + Len(others) >= task.min
        THEN [ok |-> TRUE, assigned |-> pref \o PySlice(others, task.min - Len(pref))]
        ELSE [ok |-> FALSE, assigned |-> <<>>]

\* faulty variant of lines 124-134: the fill of lines 128-131 is left out, only
\* preferred agents are ever assigned
choose_agents_no_fill(task, stage, sa, agents, rh) ==
    LET free == free_agents(task, stage, sa, agents)
        pref == preferred(task, rh, free)
    IN  IF Len(pref) >= task.min
        THEN [ok |-> TRUE, assigned |-> PySlice(pref, task.min)]
        ELSE [ok |-> FALSE, assigned |-> <<>>]

\* lines 124-134: [ok |-> an assignment is made, assigned |-> its agent list]
choose_agents(task, stage, sa, agents, rh) ==
    LET free == free_agents(task, stage, sa, agents)
        pref == preferred(task, rh, free)
        required_count == task.min
        others == SelectSeq(free, LAMBDA ag : ~InSeq(ag, pref))
    IN  IF Len(pref) >= required_count
        THEN [ok |-> TRUE, assigned |-> PySlice(pref, required_count)]
        ELSE IF Len(pref) + Len(others) >= required_count
        THEN [ok |-> TRUE,
              assigned |-> pref \o PySlice(others, required_count - Len(pref))]
        ELSE [ok |-> FALSE, assigned |-> <<>>]

----------------------------------------------------------------------------
(* Inputs.                                                                 *)

\* the demo of lines 199-234
ChairAgents == <<Agent("A", <<>>), Agent("B", <<>>), Agent("C", <<>>)>>

ChairActions ==
    << Action(1, "fetch", <<"chair_back">>, 1, <<>>),
       Action(2, "fetch", <<"chair_seat">>, 1, <<>>),
       Action(3, "fetch", <<"leg1">>, 1, <<>>),
       Action(4, "fetch", <<"leg2">>, 1, <<>>),
       Action(5, "fetch", <<"leg3">>, 1, <<>>),
       Action(6, "fetch", <<"leg4">>, 1, <<>>),
       Action(7, "attach", <<"chair_back", "chair_seat">>, 1, <<1, 2>>),
       Action(8, "attach", <<"leg1", "chair_seat">>, 1, <<3, 7>>),
       Action(9, "attach", <<"leg2", "chair_seat">>, 1, <<4, 7>>),
       Action(10, "attach", <<"leg3", "chair_seat">>, 1, <<5, 7>>),
       Action(11, "attach", <<"leg4", "chair_seat">>, 1, <<6, 7>>) >>

\* Generated rosters: 1..MaxAgents agents; the first one may carry the
\* constraint can't_attach.
AgentNames == <<"A", "B", "C", "D", "E">>

Roster(k, pat) ==
    [i \in 1..k |->
        Agent(AgentNames[i],
              IF pat = "first" /\ i = 1 THEN <<"can't_attach">> ELSE <<>>)]

Rosters == {Roster(k, pat) : k \in 1..MaxAgents, pat \in {"none", "first"}}

\* ascending sequences of at most `n` elements of the set S of numbers
RECURSIVE AscSeqs(_, _)
AscSeqs(S, n) ==
    IF S = {} \/ n = 0 THEN {<<>>}
    ELSE LET m == Max(S)
         IN  AscSeqs(S \ {m}, n) \cup {Append(q, m) : q \in AscSeqs(S \ {m}, n - 1)}

Reverse(q) == [i \in DOMAIN q |-> q[Len(q) + 1 - i]]

\* type, objects and minimum of a generated action: a fetch of o1 by one
\* agent (line 87 assumes one), an attach of o2 to o1 by m agents, a pick of o1
Profiles(m) ==
    { [type |-> "fetch", objects |-> <<"o1">>, min |-> 1],
      [type |-> "attach", objects |-> <<"o2", "o1">>, min |-> m],
      [type |-> "pick", objects |-> <<"o1">>, min |-> 1] }

\* the profiles of NumActions actions; only the first action may be a pick
ProfileLists(m) ==
    {p \in [1..NumActions -> Profiles(m)] :
        \A i \in 1..NumActions : i > 1 => p[i].type # "pick"}

MakeActions(deps, prof) ==
    [i \in DOMAIN deps |->
        Action(i, prof[i].type, prof[i].objects, prof[i].min, deps[i])]

\* dependency lists of NumActions actions: every action depends on earlier
\* actions only, or every action depends on later actions only
OrderedGraphs ==
    {g \in [1..NumActions -> AscSeqs(1..NumActions, NumActions)] :
        \/ \A i \in 1..NumActions : \A k \in DOMAIN g[i] : g[i][k] < i
        \/ \A i \in 1..NumActions : \A k \in DOMAIN g[i] : g[i][k] > i}

\* the dependency relation, independently of the validator
DependsOn(acts, a, b) == \E i \in DOMAIN acts : acts[i].id = a /\ InSeq(b, acts[i].depends_on)

RECURSIVE ReachableIn(_, _, _, _)
\* b is reached from a in at least one and at most n dependency steps
ReachableIn(acts, a, b, n) ==
    /\ n > 0
    /\ \/ DependsOn(acts, a, b)
       \/ \E c \in ActionIds(acts) : DependsOn(acts, a, c) /\ ReachableIn(acts, c, b, n - 1)

Cyclic(acts) == \E a \in ActionIds(acts) : ReachableIn(acts, a, a, Len(acts))

Dangling(acts) ==
    \E i \in DOMAIN acts : \E k \in DOMAIN acts[i].depends_on :
        \A j \in DOMAIN acts : acts[j].id # acts[i].depends_on[k]

PlainFetches(g) ==
    MakeActions(g, [i \in DOMAIN g |-> [type |-> "fetch", objects |-> <<"o1">>, min |-> 1]])

\* inputs that validation must reject: every action has at most one dependency,
\* and there is a cycle or a dependency on the id NumActions + 1, which no
\* action has
BadGraphs ==
    {h \in [1..NumActions -> AscSeqs(1..NumActions + 1, 1)] :
        Cyclic(PlainFetches(h)) \/ Dangling(PlainFetches(h))}

\* inputs of the validator specification: every dependency relation on
\* NumNodes actions, each depends_on list in ascending or descending order
NodeDeps ==
    AscSeqs(1..NumNodes, NumNodes) \cup {Reverse(q) : q \in AscSeqs(1..NumNodes, NumNodes)}

----------------------------------------------------------------------------
(* The planning call as a state machine.                                   *)

Frame(task, stage, phase, children) ==
    [task |-> task, stage |-> stage, phase |-> phase, children |-> children]

Top == stack[Len(stack)]

Pop == SubSeq(stack, 1, Len(stack) - 1)

\* faulty variant of line 111: the search starts one stage above the desired
\* stage
Call_one_above(task, desired_stage) ==
    Append(stack, Frame(task, desired_stage + 1, "search", <<>>))

\* entry of schedule_task(task, desired_stage), line 111
Call(task, desired_stage) == Append(stack, Frame(task, desired_stage, "search", <<>>))

InitWith(acts, agents) ==
    /\ actions = acts
    /\ available_agents = agents
    /\ recent_handler = EmptyDict
    /\ handler_at_call = EmptyDict
    /\ previous_result = <<>>
    /\ assigned_actions = EmptyDict
    /\ stage_assignments = EmptyDict
    /\ unassigned_actions = {}
    /\ pc = "start"
    /\ todo = <<>>
    /\ stack = <<>>

\* a generated input, an input validation rejects, or the demo
Init ==
    \/ \E g \in OrderedGraphs, m \in 1..MaxAgents, r \in Rosters :
           \E p \in ProfileLists(m) : InitWith(MakeActions(g, p), r)
    \/ \E g \in BadGraphs : InitWith(PlainFetches(g), Roster(1, "none"))
    \/ InitWith(ChairActions, ChairAgents)

\* lines 97-108 and 157-158: validation, then the scheduler's initial state
Validate ==
    /\ pc = "start"
    /\ LET v == validate_dependencies(actions)
       IN  IF v = "ok"
           THEN /\ pc' = "roots"
                /\ unassigned_actions' = ActionIds(actions)
                /\ todo' = root_tasks_sorted(actions)
           ELSE /\ pc' = (IF v = "missing" THEN "err_missing" ELSE "err_cycle")
                /\ UNCHANGED <<unassigned_actions, todo>>
    /\ UNCHANGED <<previous_result, actions, available_agents, recent_handler, handler_at_call,
                   assigned_actions, stage_assignments, stack>>

\* lines 159-161: one step of the loop over root_tasks_sorted
RootNext ==
    /\ pc = "roots" /\ stack = <<>> /\ todo # <<>>
    /\ todo' = Tail(todo)
    /\ stack' = IF Head(todo) \in unassigned_actions THEN Call(Head(todo), 1) ELSE stack
    /\ UNCHANGED <<previous_result, actions, available_agents, recent_handler, handler_at_call,
                   assigned_actions, stage_assignments, unassigned_actions, pc>>

\* the loop over root_tasks_sorted is exhausted: on to line 164
RootsDone ==
    /\ pc = "roots" /\ stack = <<>> /\ todo = <<>>
    /\ pc' = "fallback"
    /\ UNCHANGED <<previous_result, actions, available_agents, recent_handler, handler_at_call,
                   assigned_actions, stage_assignments, unassigned_actions, todo, stack>>

\* lines 164-168: the while test and one scan; line 173 when nothing is left
FallbackScan ==
    /\ pc = "fallback" /\ stack = <<>> /\ todo = <<>>
    /\ IF unassigned_actions = {}
       THEN pc' = "done" /\ todo' = todo
       ELSE LET av == available_sorted(actions, unassigned_actions, assigned_actions)
            IN  IF av = <<>>
                THEN pc' = "err_unable" /\ todo' = todo
                ELSE pc' = pc /\ todo' = av
    /\ UNCHANGED <<previous_result, actions, available_agents, recent_handler, handler_at_call,
                   assigned_actions, stage_assignments, unassigned_actions, stack>>

\* lines 169-172: one step of the loop over available_sorted
FallbackNext ==
    /\ pc = "fallback" /\ stack = <<>> /\ todo # <<>>
    /\ todo' = Tail(todo)
    /\ stack' = IF Head(todo) \in unassigned_actions
                THEN Call(Head(todo),
                          fallback_desired(ActionById(actions, Head(todo)), assigned_actions))
                ELSE stack
    /\ UNCHANGED <<previous_result, actions, available_agents, recent_handler, handler_at_call,
                   assigned_actions, stage_assignments, unassigned_actions, pc>>

\* lines 113-134, failing branch: not enough agents at this stage, try the next
NextStage ==
    /\ stack # <<>> /\ Top.phase = "search"
    /\ ~choose_agents(ActionById(actions, Top.task), Top.stage, stage_assignments,
                      available_agents, recent_handler).ok
    /\ Top.stage < MaxStage
    /\ stack' = [stack EXCEPT ![Len(stack)].stage = @ + 1]
    /\ UNCHANGED <<previous_result, actions, available_agents, recent_handler, handler_at_call,
                   assigned_actions, stage_assignments, unassigned_actions, pc, todo>>

\* lines 113-131 and 136-151: the assignment is made and recorded
Assign ==
    /\ stack # <<>> /\ Top.phase = "search"
    /\ LET task == ActionById(actions, Top.task)
           c == choose_agents(task, Top.stage, stage_assignments,
                              available_agents, recent_handler)
       IN  /\ c.ok
           /\ stage_assignments' =
                  DictPut(stage_assignments, Top.stage,
                          Append(StageList(stage_assignments, Top.stage),
                                 ActionAssignment(task.id, c.assigned, Top.stage)))
           /\ assigned_actions' = DictPut(assigned_actions, task.id, Top.stage)
           /\ unassigned_actions' = unassigned_actions \ {task.id}
           /\ recent_handler' = update_object_tracking(task, c.assigned, recent_handler)
           /\ stack' = [stack EXCEPT ![Len(stack)] =
                  Frame(task.id, Top.stage, "children",
                        sorted_by_count(actions, reverse_dependencies(actions, task.id)))]
    /\ UNCHANGED <<previous_result, actions, available_agents, handler_at_call, pc, todo>>

\* lines 152-154: one step of the loop over children_sorted
ChildNext ==
    /\ stack # <<>> /\ Top.phase = "children" /\ Top.children # <<>>
    /\ LET child == ActionById(actions, Head(Top.children))
           rest == [stack EXCEPT ![Len(stack)].children = Tail(@)]
       IN  stack' = IF child_ready(child, unassigned_actions, assigned_actions)
                    THEN Append(rest, Frame(child.id, Top.stage + 1, "search", <<>>))
                    ELSE rest
    /\ UNCHANGED <<previous_result, actions, available_agents, recent_handler, handler_at_call,
                   assigned_actions, stage_assignments, unassigned_actions, pc, todo>>

\* schedule_task returns to its caller
Return ==
    /\ stack # <<>> /\ Top.phase = "children" /\ Top.children = <<>>
    /\ stack' = Pop
    /\ UNCHANGED <<previous_result, actions, available_agents, recent_handler, handler_at_call,
                   assigned_actions, stage_assignments, unassigned_actions, pc, todo>>

Next ==
    \/ Validate
    \/ RootNext
    \/ RootsDone
    \/ FallbackScan
    \/ FallbackNext
    \/ NextStage
    \/ Assign
    \/ ChildNext
    \/ Return

Spec == Init /\ [][Next]_vars

\* validate_dependencies alone, on every dependency relation of NumNodes actions
InitValidator ==
    \E g \in [1..NumNodes -> NodeDeps] : InitWith(PlainFetches(g), Roster(1, "none"))

SpecValidator == InitValidator /\ [][Validate]_vars

\* the steps of the scheduler after validation, lines 156-176
Scheduling ==
    \/ RootNext
    \/ RootsDone
    \/ FallbackScan
    \/ FallbackNext
    \/ NextStage
    \/ Assign
    \/ ChildNext
    \/ Return

\* a generated input on a full roster whose attaches require every agent
InitFair ==
    \E g \in OrderedGraphs, p \in ProfileLists(MaxAgents) :
        InitWith(MakeActions(g, p), Roster(MaxAgents, "none"))

\* one call in a running interpreter: once the input is validated, a step of
\* the scheduler that can be taken is taken
SpecFair == InitFair /\ [][Next]_vars /\ WF_vars(Scheduling)

\* a planner that starts every call from an empty dict
handler_cleared(rh) == EmptyDict

\* what the module-level dict of line 67 holds when the next call starts:
\* no line of plan_parallel_actions clears or rebinds it
handler_carried_over(rh) == rh

\* plan_parallel_actions has returned and is called again with the same
\* arguments: the dicts of lines 106-108 are fresh, recent_handler is not
NewCall ==
    /\ pc = "done"
    /\ recent_handler' = handler_carried_over(recent_handler)
    /\ handler_at_call' = recent_handler'
    /\ previous_result' = <<[handler_at_call |-> handler_at_call,
                             stage_assignments |-> stage_assignments]>>
    /\ assigned_actions' = EmptyDict
    /\ stage_assignments' = EmptyDict
    /\ unassigned_actions' = {}
    /\ pc' = "start"
    /\ todo' = <<>>
    /\ stack' = <<>>
    /\ UNCHANGED <<actions, available_agents>>

\* generated inputs with an unconstrained roster, and the demo
InitCalls ==
    \/ \E g \in OrderedGraphs, m \in 1..MaxAgents, k \in 1..MaxAgents :
           \E p \in ProfileLists(m) : InitWith(MakeActions(g, p), Roster(k, "none"))
    \/ InitWith(ChairActions, ChairAgents)

NextCalls ==
    \/ Next
    \/ NewCall

\* a process that plans the same input again and again
SpecCalls == InitCalls /\ [][NextCalls]_vars

----------------------------------------------------------------------------------------------------------------------------------------
(* Vocabulary of the properties.                                           *)

\* positions <<stage, index>> of the recorded assignments
Slots ==
    UNION {{<<st, i>> : i \in DOMAIN stage_assignments[st]} : st \in DOMAIN stage_assignments}

Recorded(slot) == stage_assignments[slot[1]][slot[2]]

SlotsOf(id) == {sl \in Slots : Recorded(sl).action_id = id}

AgentIdsOf(rec) == {ag.id : ag \in Range(rec.assigned_agents)}

Returned == pc = "done"

Failed == pc \in {"err_missing", "err_cycle", "err_unable"}

IsChair == actions = ChairActions /\ available_agents = ChairAgents

\* the agent may perform actions of the type: its constraints do not hold the tag
Qualified(ag, type) == \A k \in DOMAIN ag.constraints : ag.constraints[k] # "can't_" \o type

\* roster agents not committed to any assignment recorded at the stage
FreeAt(ag, st) ==
    \A sl \in Slots : sl[1] = st => ag.id \notin AgentIdsOf(Recorded(sl))

\* schedule_task is trying a stage for its task
Searching == stack # <<>> /\ Top.phase = "search"

\* this step records the assignment of the task being tried
AssignStep ==
    /\ Searching
    /\ Len(stack') = Len(stack)
    /\ stack'[Len(stack)].phase = "children"

\* the agent list recorded by an AssignStep
NewAgents == stage_assignments'[Top.stage][Len(stage_assignments'[Top.stage])].assigned_agents

----------------------------------------------------------------------------
(* C1: when plan_parallel_actions returns, every action's stage is         *)
(* strictly greater than the stage of each of its dependencies.            *)
(* The code does not establish this: the cascade starts a child at the     *)
(* stage after the parent assigned last, which can be at or below the      *)
(* stage of a dependency assigned earlier.                                 *)
C1_StageAfterDependencies ==
    Returned =>
        \A i \in DOMAIN actions : \A k \in DOMAIN actions[i].depends_on :
            assigned_actions[actions[i].id] > assigned_actions[actions[i].depends_on[k]]

----------------------------------------------------------------------------
(* C2: in every state, the agent lists of the assignments recorded at one  *)
(* stage are pairwise disjoint.                                            *)
C2_StageAgentsDisjoint ==
    \A s1 \in Slots : \A s2 \in Slots :
        (s1 # s2 /\ s1[1] = s2[1]) =>
            AgentIdsOf(Recorded(s1)) \cap AgentIdsOf(Recorded(s2)) = {}

\* a stage holds two assignments and a later stage holds one: an action was
\* pushed on because the agents it needed were taken
C2_Witness ==
    \E s1 \in Slots : \E s2 \in Slots : \E s3 \in Slots :
        /\ s1 # s2 /\ s1[1] = s2[1] /\ s3[1] > s1[1]
        /\ AgentIdsOf(Recorded(s1)) \cup AgentIdsOf(Recorded(s2))
               = {available_agents[i].id : i \in DOMAIN available_agents}

----------------------------------------------------------------------------
(* C3: every recorded assignment has at least required_agents["min"]       *)
(* agents, and none of them carries the constraint can't_<type> of the     *)
(* action's type.                                                          *)
C3_EnoughQualifiedAgents ==
    \A sl \in Slots :
        LET rec == Recorded(sl)
            a == ActionById(actions, rec.action_id)
        IN  /\ Len(rec.assigned_agents) >= a.min
            /\ \A k \in DOMAIN rec.assigned_agents : Qualified(rec.assigned_agents[k], a.type)

\* an attach is recorded although the recent handler of one of its objects
\* is a roster agent that cannot attach and is free at that stage
C3_Witness ==
    /\ stack # <<>> /\ Top.phase = "children"
    /\ ActionById(actions, Top.task).type = "attach"
    /\ \E sl \in SlotsOf(Top.task) : \E sf \in Slots :
          LET fetched == Recorded(sf)
          IN  /\ ActionById(actions, fetched.action_id).type = "fetch"
              /\ ~Qualified(fetched.assigned_agents[1], "attach")
              /\ FreeAt(fetched.assigned_agents[1], sl[1])

----------------------------------------------------------------------------
(* C4: no action is ever recorded twice, a recorded assignment never       *)
(* changes, and when the call returns every action has exactly one.        *)
C4_OneAssignmentEach ==
    /\ [](\A i \in DOMAIN actions :
            /\ Cardinality(SlotsOf(actions[i].id)) <= 1
            /\ Returned => Cardinality(SlotsOf(actions[i].id)) = 1)
    /\ [][\A sl \in Slots :
            /\ sl \in Slots'
            /\ Recorded(sl)' = Recorded(sl)
            /\ assigned_actions'[Recorded(sl).action_id] = sl[1]]_vars

\* the cascade of a parent comes to a child that the cascade of another
\* parent has already assigned
C4_Witness ==
    /\ stack # <<>> /\ Top.phase = "children" /\ Top.children # <<>>
    /\ SlotsOf(Head(Top.children)) # {}

----------------------------------------------------------------------------
(* C5: on an action set whose dependency ids all exist,                    *)
(* validate_dependencies raises the cycle error exactly when the           *)
(* dependency relation has a cycle, and returns normally otherwise.        *)
C5_CycleErrorIffCyclic ==
    (pc # "start" /\ ~Dangling(actions)) =>
        /\ pc = "err_cycle" <=> Cyclic(actions)
        /\ pc = "roots" <=> ~Cyclic(actions)

\* the cycle error is raised for a cycle that the first action is not on,
\* in an input where an action outside the cycle has two dependencies
C5_Witness ==
    /\ pc = "err_cycle"
    /\ ~ReachableIn(actions, actions[1].id, actions[1].id, Len(actions))
    /\ \E i \in DOMAIN actions :
          /\ Len(actions[i].depends_on) = 2
          /\ ~ReachableIn(actions, actions[i].id, actions[i].id, Len(actions))

----------------------------------------------------------------------------
(* C6: when a dependency id names no action or the dependency relation has *)
(* a cycle, the call fails in validation: a missing id gives the           *)
(* missing-dependency error, otherwise the cycle error; no scheduling is   *)
(* attempted, nothing is assigned and recent_handler is as the call found  *)
(* it.                                                                     *)
C6_InvalidInputFailsFirst ==
    (pc # "start" /\ (Dangling(actions) \/ Cyclic(actions))) =>
        /\ pc = (IF Dangling(actions) THEN "err_missing" ELSE "err_cycle")
        /\ stack = <<>> /\ todo = <<>>
        /\ Slots = {}
        /\ DOMAIN assigned_actions = {}
        /\ recent_handler = handler_at_call

\* the call has failed on an input with a missing dependency id and a cycle
C6_Witness ==
    /\ pc = "err_missing"
    /\ Dangling(actions) /\ Cyclic(actions)

----------------------------------------------------------------------------
(* C7 as stated: when an action requiring one agent is assigned, every     *)
(* roster agent that fetched one of its objects in an earlier action, may  *)
(* perform the action and is free at the stage of the assignment is the    *)
(* agent chosen.                                                           *)
FetchedBy(ag, obj) ==
    \E sl \in Slots :
        /\ ActionById(actions, Recorded(sl).action_id).type = "fetch"
        /\ InSeq(obj, ActionById(actions, Recorded(sl).action_id).objects)
        /\ InSeq(ag, Recorded(sl).assigned_agents)

HandlerUsable(task, k, st) ==
    /\ task.objects[k] \in DOMAIN recent_handler
    /\ InSeq(recent_handler[task.objects[k]], available_agents)
    /\ Qualified(recent_handler[task.objects[k]], task.type)
    /\ FreeAt(recent_handler[task.objects[k]], st)

----------------------------------------------------------------------------
ChairFetchStages == [id \in 1..6 |-> assigned_actions[id]]

(* C8 as stated: the plan of the chair assembly with agents A, B, C and an *)
(* empty affinity state places all six fetches in stage 1.                 *)
C8_AllFetchesInStageOne ==
    (IsChair /\ handler_at_call = EmptyDict /\ Returned) =>
        ChairFetchStages = <<1, 1, 1, 1, 1, 1>>

(* C8 as amended: that plan places the fetches 1, 2 and 3 in stage 1, the  *)
(* fetch 4 in stage 2 and the fetches 5 and 6 in stage 3.                  *)
C8_ThreeFetchesInStageOne ==
    (IsChair /\ handler_at_call = EmptyDict /\ Returned) =>
        ChairFetchStages = <<1, 1, 1, 2, 3, 3>>

\* the planning of the chair assembly has returned
C8_Witness == IsChair /\ handler_at_call = EmptyDict /\ Returned

----------------------------------------------------------------------------
\* fewer roster agents are qualified for the action's type than it requires
Unsatisfiable(a) ==
    Cardinality({i \in DOMAIN available_agents : Qualified(available_agents[i], a.type)})
        < a.min

(* C9: an action that fewer roster agents are qualified for than it        *)
(* requires is never recorded, and once it is attempted the only thing     *)
(* that ever happens is that its candidate stage goes up by one: the call  *)
(* neither returns nor raises.                                             *)
C9_UnsatisfiableSearchesForever ==
    /\ [](\A i \in DOMAIN actions :
            Unsatisfiable(actions[i]) =>
                /\ SlotsOf(actions[i].id) = {}
                /\ actions[i].id \notin DOMAIN assigned_actions)
    /\ [][(Searching /\ Unsatisfiable(ActionById(actions, Top.task))) =>
            /\ stack' = [stack EXCEPT ![Len(stack)].stage = @ + 1]
            /\ UNCHANGED <<previous_result, actions, available_agents, recent_handler, handler_at_call,
                           assigned_actions, stage_assignments, unassigned_actions,
                           pc, todo>>]_vars
    /\ []((\E i \in DOMAIN stack : Unsatisfiable(ActionById(actions, stack[i].task)))
             => ~Returned /\ ~Failed)

\* the search for an unsatisfiable attach has passed every stage in use and
\* every stage a feasible plan could need, with part of the plan recorded
C9_Witness ==
    /\ Searching
    /\ Unsatisfiable(ActionById(actions, Top.task))
    /\ Top.stage > Len(actions) + 1
    /\ Slots # {}
    /\ \E i \in DOMAIN available_agents : Qualified(available_agents[i], "attach")

----------------------------------------------------------------------------
(* C10: after validation the fallback pass never fails with 'Unable to     *)
(* schedule tasks': at the start of every scan with unassigned actions     *)
(* left, one of them has all its dependencies assigned.                    *)
C10_FallbackNeverStarves ==
    /\ pc # "err_unable"
    /\ (pc = "fallback" /\ stack = <<>> /\ todo = <<>> /\ unassigned_actions # {}) =>
           \E i \in DOMAIN actions :
               /\ actions[i].id \in unassigned_actions
               /\ \A k \in DOMAIN actions[i].depends_on :
                      actions[i].depends_on[k] \in DOMAIN assigned_actions

\* a scan starts with some actions assigned by the first pass and others,
\* one of them with dependencies, still unassigned
C10_Witness ==
    /\ pc = "fallback" /\ stack = <<>> /\ todo = <<>>
    /\ DOMAIN assigned_actions # {}
    /\ \E i \in DOMAIN actions :
          actions[i].id \in unassigned_actions /\ actions[i].depends_on # <<>>

----------------------------------------------------------------------------
(* C11: recent_handler is never reset by a planning call.  What one call   *)
(* wrote is what the next call starts from, and the next call uses it as   *)
(* its preference: the first assignment of a call goes to the handler the  *)
(* earlier call left for the first object, when that agent is qualified.   *)
(* Two calls on the same actions and agents return the same stages when    *)
(* they start from equal handlers, and may differ when they do not.        *)

\* this step is the call that follows a returned call
CallAgainStep == pc = "done" /\ pc' = "start"

\* the first assignment of a call: every agent is free, recent_handler is
\* still what the call started from
FirstAssignStep == AssignStep /\ stage_assignments = EmptyDict

C11_HandlersSurviveCalls ==
    /\ [][CallAgainStep => recent_handler' = recent_handler]_vars
    /\ [](pc = "start" => recent_handler = handler_at_call)
    /\ [][FirstAssignStep =>
            LET task == ActionById(actions, Top.task)
                o == task.objects[1]
            IN  (o \in DOMAIN handler_at_call /\ Qualified(handler_at_call[o], task.type))
                    => NewAgents[1] = handler_at_call[o]]_vars
    /\ [](Returned /\ previous_result # <<>>
              /\ previous_result[1].handler_at_call = handler_at_call
           => stage_assignments = previous_result[1].stage_assignments)

\* the same input planned twice, with two different results
C11_Witness ==
    /\ Returned /\ previous_result # <<>>
    /\ previous_result[1].handler_at_call # handler_at_call
    /\ previous_result[1].stage_assignments # stage_assignments

----------------------------------------------------------------------------
\* the input has passed validation, and every action requires at least one
\* agent and no more agents than the roster has qualified for its type
Plannable ==
    /\ pc \notin {"start", "err_missing", "err_cycle"}
    /\ \A i \in DOMAIN actions : actions[i].min >= 1 /\ ~Unsatisfiable(actions[i])

(* C12: on a plannable input plan_parallel_actions eventually returns, it  *)
(* never raises, and when it returns no action is left unassigned.         *)
C12_PlannableInputReturns ==
    /\ (Plannable ~> Returned)
    /\ [](Plannable => ~Failed)
    /\ [](Returned => unassigned_actions = {} /\ stack = <<>>)

\* a call has returned a plan that needed the stage search to move on and
\* the fallback pass to place an action
C12_Witness ==
    /\ Returned /\ Plannable
    /\ \E i \in DOMAIN actions : actions[i].type # "fetch" /\ actions[i].depends_on = <<>>
    /\ Cardinality(DOMAIN stage_assignments) > Len(available_agents)

----------------------------------------------------------------------------
(* C13: schedule_task is only ever invoked for an action, by either pass   *)
(* or by the cascade, when every dependency of the action is already       *)
(* assigned, and so every assigned action has all its dependencies         *)
(* assigned.                                                               *)
C13_AttemptedAfterDependencies ==
    /\ \A i \in DOMAIN stack :
           deps_assigned(ActionById(actions, stack[i].task), assigned_actions)
    /\ \A i \in DOMAIN actions :
           actions[i].id \in DOMAIN assigned_actions =>
               \A k \in DOMAIN actions[i].depends_on :
                   actions[i].depends_on[k] \in DOMAIN assigned_actions

\* the cascade has just started an action with two dependencies: it was
\* passed over when the first of them was assigned
C13_Witness ==
    /\ Searching
    /\ Len(stack) >= 2
    /\ Len(ActionById(actions, Top.task).depends_on) >= 2
    /\ Top.stage = stack[Len(stack) - 1].stage + 1

----------------------------------------------------------------------------
\* a roster agent that is qualified for the type and free at the stage
Usable(ag, type, st) == InSeq(ag, available_agents) /\ Qualified(ag, type) /\ FreeAt(ag, st)

\* the recent handlers of the task's objects, in object order
HandlersInOrder(task) ==
    LET objs == SelectSeq(task.objects, LAMBDA o : o \in DOMAIN recent_handler)
    IN  [k \in 1..Len(objs) |-> recent_handler[objs[k]]]

\* the usable ones among them, each kept where it first occurs
PreferredList(task, st) ==
    LET hs == HandlersInOrder(task)
        keep == SelectSeq([k \in 1..Len(hs) |-> k],
                    LAMBDA k : Usable(hs[k], task.type, st)
                               /\ \A j \in 1..(k - 1) : hs[j] # hs[k])
    IN  [k \in 1..Len(keep) |-> hs[keep[k]]]

\* the other usable agents, in roster order
FillList(task, st) ==
    SelectSeq(available_agents,
        LAMBDA ag : Usable(ag, task.type, st) /\ ~InSeq(ag, PreferredList(task, st)))

\* preferred agents first, cut to min, then as many others as are missing
ExpectedAgents(task, st) ==
    LET pref == PreferredList(task, st)
        fill == FillList(task, st)
    IN  IF Len(pref) >= task.min
        THEN SubSeq(pref, 1, task.min)
        ELSE pref \o SubSeq(fill, 1, task.min - Len(pref))

(* C14: every recorded assignment holds exactly min agents of its action,  *)
(* all distinct, and the list recorded is the preferred agents (recent     *)
(* handlers of the objects in object order, without repetition, qualified  *)
(* and free at the stage) cut to min, followed when they are fewer than    *)
(* min by the remaining qualified free agents in roster order.             *)
C14_ExactlyMinAgentsPreferredFirst ==
    /\ [](\A sl \in Slots :
            LET rec == Recorded(sl)
            IN  /\ Len(rec.assigned_agents) = ActionById(actions, rec.action_id).min
                /\ Cardinality(AgentIdsOf(rec)) = Len(rec.assigned_agents))
    /\ [][AssignStep =>
            NewAgents = ExpectedAgents(ActionById(actions, Top.task), Top.stage)]_vars

\* an action requiring two agents has been given the handler of its object,
\* the second agent of the roster, followed by the first agent of the roster
C14_Witness ==
    /\ stack # <<>> /\ Top.phase = "children"
    /\ Len(available_agents) >= 2
    /\ \E sl \in SlotsOf(Top.task) :
           /\ sl[1] = Top.stage
           /\ Recorded(sl).assigned_agents = <<available_agents[2], available_agents[1]>>

----------------------------------------------------------------------------
(* C15: recording a fetch or an attach makes recent_handler map every      *)
(* object of the action to the first agent of the assignment, whatever it  *)
(* held for them, and leaves every other object as it was; recording an    *)
(* action of another type leaves recent_handler unchanged.  No other step  *)
(* of a call changes recent_handler.                                       *)
C15_HandlerFrame ==
    /\ [][AssignStep =>
            LET task == ActionById(actions, Top.task)
                objs == Range(task.objects)
            IN  IF task.type \in {"fetch", "attach"}
                THEN /\ DOMAIN recent_handler' = DOMAIN recent_handler \cup objs
                     /\ \A o \in objs : recent_handler'[o] = NewAgents[1]
                     /\ \A o \in DOMAIN recent_handler \ objs :
                            recent_handler'[o] = recent_handler[o]
                ELSE recent_handler' = recent_handler]_vars
    /\ [][~AssignStep => recent_handler' = recent_handler]_vars

\* an attach has just been recorded for an agent other than the one that
\* fetched its object: the fetcher's entry is overwritten
C15_Witness ==
    /\ stack # <<>> /\ Top.phase = "children"
    /\ LET task == ActionById(actions, Top.task)
       IN  /\ task.type = "attach"
           /\ \E sl \in Slots :
                  /\ ActionById(actions, Recorded(sl).action_id).type = "fetch"
                  /\ Recorded(sl).assigned_agents[1] # recent_handler[task.objects[2]]
                  /\ task.objects[2] \in
                         Range(ActionById(actions, Recorded(sl).action_id).objects)

----------------------------------------------------------------------------
\* the stage at which the search of the innermost schedule_task began: one
\* above the parent's stage for a cascade start, 1 for a start without
\* dependencies, one above the highest dependency stage otherwise
DesiredStage ==
    LET task == ActionById(actions, Top.task)
    IN  IF Len(stack) >= 2 THEN stack[Len(stack) - 1].stage + 1
        ELSE IF task.depends_on = <<>> THEN 1
        ELSE Max({assigned_actions[task.depends_on[k]] : k \in DOMAIN task.depends_on}) + 1

\* number of roster agents qualified for the type and not committed to an
\* assignment recorded at the stage
FreeQualified(type, st) ==
    Cardinality({i \in DOMAIN available_agents :
                    Qualified(available_agents[i], type) /\ FreeAt(available_agents[i], st)})

(* C16: the stage recorded for an action is the smallest stage s, not      *)
(* below the desired stage, at which at least min roster agents are        *)
(* qualified for the action's type and not committed at stage s: every     *)
(* stage the search has passed had fewer, and the stage recorded has       *)
(* enough.  Only commitments at s itself count.                            *)
C16_EarliestFeasibleStage ==
    /\ [](Searching =>
            LET task == ActionById(actions, Top.task)
            IN  /\ Top.stage >= DesiredStage
                /\ \A s \in DesiredStage..(Top.stage - 1) :
                       FreeQualified(task.type, s) < task.min)
    /\ [][AssignStep =>
            LET task == ActionById(actions, Top.task)
            IN  /\ FreeQualified(task.type, Top.stage) >= task.min
                /\ assigned_actions'[task.id] = Top.stage
                /\ \E i \in DOMAIN stage_assignments'[Top.stage] :
                       stage_assignments'[Top.stage][i].action_id = task.id]_vars

\* a fetch of the first pass has been recorded at stage 3: stages 1 and 2
\* were full, and its agent is committed at both of them as well
C16_Witness ==
    /\ pc = "roots" /\ Len(stack) = 1 /\ Top.phase = "children"
    /\ Top.stage = 3
    /\ \E sl \in SlotsOf(Top.task) :
           /\ sl[1] = 3
           /\ \A ag \in Range(Recorded(sl).assigned_agents) :
                  ~FreeAt(ag, 1) /\ ~FreeAt(ag, 2)

----------------------------------------------------------------------------
\* number of actions that directly depend on the action
DependentCount(id) ==
    Cardinality({i \in DOMAIN actions : InSeq(id, actions[i].depends_on)})

\* positions of the fetches without dependencies
RootFetches ==
    {i \in DOMAIN actions : actions[i].depends_on = <<>> /\ actions[i].type = "fetch"}

IsAssigned(i) == actions[i].id \in DOMAIN assigned_actions

\* of two fetches without dependencies, the one the first pass starts first
StartsBefore(i, j) ==
    \/ DependentCount(actions[i].id) > DependentCount(actions[j].id)
    \/ DependentCount(actions[i].id) = DependentCount(actions[j].id) /\ i < j

(* C17: the first pass starts only fetches without dependencies, each at   *)
(* desired stage 1, in descending order of dependent count with ties in    *)
(* input order: such a fetch is never assigned while one that precedes it  *)
(* in that order is unassigned, and an action without dependencies of      *)
(* another type is never assigned while such a fetch is unassigned.        *)
C17_RootFetchesFirstByCount ==
    /\ [][(pc = "roots" /\ stack = <<>> /\ stack' # <<>>) =>
            /\ Len(stack') = 1
            /\ stack'[1].stage = 1 /\ stack'[1].phase = "search"
            /\ \E i \in RootFetches : actions[i].id = stack'[1].task]_vars
    /\ [](\A i \in RootFetches, j \in RootFetches :
             (StartsBefore(i, j) /\ IsAssigned(j)) => IsAssigned(i))
    /\ [](\A i \in RootFetches, j \in DOMAIN actions :
             (actions[j].depends_on = <<>> /\ actions[j].type # "fetch" /\ IsAssigned(j))
                 => IsAssigned(i))

\* the first pass has assigned a fetch with a dependent while a fetch
\* without dependents that stands before it in the input is still unassigned
C17_Witness ==
    /\ pc = "roots"
    /\ \E i \in RootFetches, j \in RootFetches :
           /\ i < j
           /\ DependentCount(actions[j].id) > DependentCount(actions[i].id)
           /\ IsAssigned(j) /\ ~IsAssigned(i)

----------------------------------------------------------------------------
\* the stages recorded for the dependencies of the action
DependencyStages(a) == {assigned_actions[a.depends_on[k]] : k \in DOMAIN a.depends_on}

\* this step is a start of schedule_task by the fallback pass
FallbackStartStep == pc = "fallback" /\ stack = <<>> /\ stack' # <<>>

(* C18: an action the fallback pass starts is started at desired stage 1   *)
(* when it has no dependencies and one above the highest stage of its      *)
(* dependencies otherwise, and the stage recorded for it is strictly       *)
(* greater than the stage of each of its dependencies.                     *)
C18_FallbackStageAfterDependencies ==
    /\ [][FallbackStartStep =>
            LET a == ActionById(actions, stack'[1].task)
            IN  /\ Len(stack') = 1 /\ stack'[1].phase = "search"
                /\ stack'[1].stage =
                       (IF a.depends_on = <<>> THEN 1 ELSE Max(DependencyStages(a)) + 1)]_vars
    /\ []((pc = "fallback" /\ stack # <<>> /\ stack[1].phase = "children") =>
            LET a == ActionById(actions, stack[1].task)
            IN  /\ assigned_actions[a.id] >= 1
                /\ \A st \in DependencyStages(a) : assigned_actions[a.id] > st)

\* the fallback pass has started a pick and recorded it above stage 1, the
\* stage it asked for being taken by the fetches of the first pass
C18_Witness ==
    /\ pc = "fallback" /\ stack # <<>> /\ stack[1].phase = "children"
    /\ ActionById(actions, stack[1].task).type = "pick"
    /\ assigned_actions[stack[1].task] > 1

----------------------------------------------------------------------------
\* the stage numbers that hold at least one assignment
UsedStages == {sl[1] : sl \in Slots}

(* C19: in every state of a call the stages that hold an assignment are    *)
(* 1, 2, ..., M without a gap, and when the call returns the highest of    *)
(* them is at most the number of actions.                                  *)
C19_StagesGapFree ==
    /\ UsedStages = 1..Cardinality(UsedStages)
    /\ \A st \in DOMAIN stage_assignments : stage_assignments[st] # <<>>
    /\ Returned => Max(UsedStages \cup {0}) <= Len(actions)

\* a plan has been returned in which every action has a stage of its own
C19_Witness ==
    /\ Returned
    /\ Len(actions) >= 3
    /\ Cardinality(UsedStages) = Len(actions)

====
